---- MODULE Spec2Model ----
(***************************************************************************)
(* Model of src/vehicle-emission-analysis/app.py: the Streamlit page that  *)
(* reads an uploaded 10 Hz emission table, preprocesses it, keeps every    *)
(* tenth sample, computes the CO / THC / NOx conversion efficiency and     *)
(* renders one interpolated surface per pollutant before offering a CSV.   *)
(*                                                                         *)
(* Numbers.  Sensor cells are integers.  Results of a division are exact   *)
(* rationals <<n, d>> in lowest terms with d > 0 (float rounding is not    *)
(* modelled).  Two distinguished cells stand for what pandas keeps in a    *)
(* column besides numbers: NaN (an empty spreadsheet cell) and Text (a     *)
(* cell read_excel could not read as a number, kept as a str object).      *)
(***************************************************************************)
EXTENDS Integers, Sequences, FiniteSets, TLC

VARIABLES
    uploaded_file,  \* main: the table behind st.file_uploader, None before an upload
    df,             \* main: the DataFrame as it is rebound along the try block
    page,           \* the Streamlit elements rendered so far, in call order
    csv,            \* the data handed to st.download_button
    pc,             \* position of the running script inside main
    call,           \* a direct call of one of the module's functions
    ret             \* what that call returned (or the exception it raised)

vars == <<uploaded_file, df, page, csv, pc, call, ret>>

----------------------------------------------------------------------------
\* Bounds of the model.

\* longest upstream/downstream pair handed directly to calculate_efficiency
MaxLen == 2
\* longest series handed directly to the decimation
MaxSeriesLen == 21
\* largest stride, besides the program's own, tried on the decimation
MaxStride == 3
\* most points of a scatter cloud handed directly to create_3d_surface
MaxPoints == 3
\* most rows of an uploaded table
MaxRows == 21

----------------------------------------------------------------------------
\* Cells and exact rationals.

NaN == -9999
Text == -8888

IsNum(c) == c # NaN /\ c # Text

Abs(a) == IF a < 0 THEN -a ELSE a

RECURSIVE GCD(_, _)
GCD(a, b) == IF b = 0 THEN a ELSE GCD(b, a % b)

\* n/d in lowest terms, d > 0 (d # 0 required)
Rat(n, d) ==
    LET g == GCD(Abs(n), Abs(d))
        s == IF d < 0 THEN -1 ELSE 1
    IN  <<(s * n) \div g, (s * d) \div g>>

RatOfInt(a) == <<a, 1>>
RatSub(a, b) == Rat(a[1] * b[2] - b[1] * a[2], a[2] * b[2])
RatAdd(a, b) == Rat(a[1] * b[2] + b[1] * a[2], a[2] * b[2])
RatMul(a, b) == Rat(a[1] * b[1], a[2] * b[2])
RatDiv(a, b) == Rat(a[1] * b[2], a[2] * b[1])
RatLE(a, b) == a[1] * b[2] <= b[1] * a[2]
RatMax(a, b) == IF RatLE(a, b) THEN b ELSE a
RatMin(a, b) == IF RatLE(a, b) THEN a ELSE b

----------------------------------------------------------------------------
\* calculate_efficiency (app.py 37-46)

\* np.zeros_like(upstream, dtype=float)
zeros_like(upstream) == [i \in 1..Len(upstream) |-> RatOfInt(0)]

\* (upstream > 0) & (downstream >= 0)
valid_mask(upstream, downstream) ==
    [i \in 1..Len(upstream) |-> upstream[i] > 0 /\ downstream[i] >= 0]

\* np.clip(efficiency, 0, 100)
clip_0_100(efficiency) ==
    [i \in 1..Len(efficiency) |->
        RatMin(RatMax(efficiency[i], RatOfInt(0)), RatOfInt(100))]

\* a plausible slip: the clip to [0, 100] left out
calculate_efficiency_noclip(upstream, downstream) ==
    LET mask == valid_mask(upstream, downstream)
    IN  [i \in 1..Len(upstream) |->
            IF mask[i]
            THEN RatMul(RatSub(RatOfInt(1),
                               RatDiv(RatOfInt(downstream[i]), RatOfInt(upstream[i]))),
                        RatOfInt(100))
            ELSE RatOfInt(0)]

\* a plausible slip: the mask tests upstream only, so a negative downstream
\* reading is clamped instead of disqualifying the sample
calculate_efficiency_upmask(upstream, downstream) ==
    clip_0_100([i \in 1..Len(upstream) |->
        IF upstream[i] > 0
        THEN RatMul(RatSub(RatOfInt(1),
                           RatDiv(RatOfInt(downstream[i]), RatOfInt(upstream[i]))),
                    RatOfInt(100))
        ELSE RatOfInt(0)])

calculate_efficiency(upstream, downstream) ==
    LET efficiency0 == zeros_like(upstream)
        mask == valid_mask(upstream, downstream)
        \* efficiency[valid_mask] = (1 - downstream[valid_mask] / upstream[valid_mask]) * 100
        efficiency1 ==
            [i \in 1..Len(upstream) |->
                IF mask[i]
                THEN RatMul(RatSub(RatOfInt(1),
                                   RatDiv(RatOfInt(downstream[i]), RatOfInt(upstream[i]))),
                            RatOfInt(100))
                ELSE efficiency0[i]]
    IN  clip_0_100(efficiency1)

----------------------------------------------------------------------------
\* df.iloc[::stride] (app.py 146): the rows range(0, n, stride), in order

RECURSIVE iloc_from(_, _, _)
iloc_from(series, start, stride) ==
    IF start >= Len(series) THEN <<>>
    ELSE <<series[start + 1]>> \o iloc_from(series, start + stride, stride)

\* a plausible slip: the slice starts at the stride-th sample, iloc[stride::stride]
iloc_step_late(series, stride) == iloc_from(series, stride, stride)

iloc_step(series, stride) == iloc_from(series, 0, stride)

----------------------------------------------------------------------------
\* create_3d_surface (app.py 49-103)

gridSize == 50

Range(s) == {s[i] : i \in 1..Len(s)}

\* Python's min(column) / max(column) on a non-empty numeric column
SeqMin(s) == CHOOSE m \in Range(s) : \A x \in Range(s) : m <= x
SeqMax(s) == CHOOSE m \in Range(s) : \A x \in Range(s) : x <= m

\* a plausible slip: endpoint=False, the interval divided by num instead of num - 1
linspace_open(start, stop, num) ==
    [i \in 1..num |-> RatAdd(RatOfInt(start),
                             RatMul(RatOfInt(i - 1), Rat(stop - start, num)))]

\* np.linspace(start, stop, num): step = (stop - start) / (num - 1),
\* y[i] = i * step + start, and the last sample is set to stop itself
linspace(start, stop, num) ==
    LET div == num - 1
        step == Rat(stop - start, div)
    IN  [i \in 1..num |->
            IF i = num THEN RatOfInt(stop)
            ELSE RatAdd(RatMul(RatOfInt(i - 1), step), RatOfInt(start))]

\* np.meshgrid(xi, yi): two arrays of shape (len(yi), len(xi))
meshgrid_x(xi, yi) == [r \in 1..Len(yi) |-> [c \in 1..Len(xi) |-> xi[c]]]
meshgrid_y(xi, yi) == [r \in 1..Len(yi) |-> [c \in 1..Len(xi) |-> yi[r]]]

\* twice the signed area of the triangle (a, b, q); a, b integer points,
\* q a point with rational coordinates, scaled by q's (positive) denominators
Cross(ax, ay, bx, by, qx, qy) ==
    (bx - ax) * (qy[1] - ay * qy[2]) * qx[2]
  - (by - ay) * (qx[1] - ax * qx[2]) * qy[2]

\* Qhull cannot start a triangulation: fewer than three points (QH6214), or
\* every point on one line, the initial simplex is flat (QH6154)
QhullFails(x, y) ==
    \/ Len(x) < 3
    \/ \A i, j, k \in 1..Len(x) :
          Cross(x[i], y[i], x[j], y[j], RatOfInt(x[k]), RatOfInt(y[k])) = 0

\* q lies in the convex hull of the cloud: in a triangle of three of its points
InHull(x, y, qx, qy) ==
    \E i, j, k \in 1..Len(x) :
      /\ i < j /\ j < k
      /\ LET c1 == Cross(x[i], y[i], x[j], y[j], qx, qy)
             c2 == Cross(x[j], y[j], x[k], y[k], qx, qy)
             c3 == Cross(x[k], y[k], x[i], y[i], qx, qy)
         IN  /\ Cross(x[i], y[i], x[j], y[j], RatOfInt(x[k]), RatOfInt(y[k])) # 0
             /\ \/ (c1 >= 0 /\ c2 >= 0 /\ c3 >= 0)
                \/ (c1 <= 0 /\ c2 <= 0 /\ c3 <= 0)

\* a plausible slip: a method that needs no triangulation (nearest) never fails
griddata_raises_never(x, y) == FALSE

\* griddata(..., method='linear') raises QhullError instead of returning
griddata_raises(x, y) == QhullFails(x, y)

\* griddata((flow, temp), efficiency, (xi, yi), method='linear', fill_value=0):
\* an array of the shape of xi; a cell outside the convex hull holds the fill
\* value, a cell inside it the value interpolated on its Delaunay triangle
\* (the interpolated number itself is not modelled)
griddata(x, y, z, XI, YI) ==
    [r \in 1..Len(XI) |-> [c \in 1..Len(XI[r]) |->
        IF InHull(x, y, XI[r][c], YI[r][c]) THEN "interpolated" ELSE "fill_value"]]

\* the exception create_3d_surface lets through to its caller, "" for none:
\* min() of an empty column, a comparison of str with a number, or Qhull's
create_3d_surface_exception(flow, temp) ==
    IF Len(flow) = 0 THEN "ValueError"
    ELSE IF \E i \in 1..Len(flow) : ~IsNum(flow[i]) \/ ~IsNum(temp[i]) THEN "TypeError"
    ELSE IF griddata_raises(flow, temp) THEN "QhullError"
    ELSE ""

\* lines 52-54: the coordinate arrays, built before griddata is called
surface_xi(flow, temp) ==
    meshgrid_x(linspace(SeqMin(flow), SeqMax(flow), gridSize),
               linspace(SeqMin(temp), SeqMax(temp), gridSize))
surface_yi(flow, temp) ==
    meshgrid_y(linspace(SeqMin(flow), SeqMax(flow), gridSize),
               linspace(SeqMin(temp), SeqMax(temp), gridSize))

\* the go.Surface trace of the returned figure
create_3d_surface(flow, temp, efficiency, pollutant_name) ==
    LET xi == surface_xi(flow, temp)
        yi == surface_yi(flow, temp)
    IN  [x |-> xi, y |-> yi, z |-> griddata(flow, temp, efficiency, xi, yi),
         name |-> pollutant_name]

----------------------------------------------------------------------------
\* The DataFrame: its column labels and, in the same order, its columns.
\* The ten labels preprocess_data assigns (lines 109-114) are written in
\* ASCII: time, Lambda, catalyst_temp, CO_raw (CO upstream), CO_tail
\* (CO downstream), THC_raw, THC_tail, NOx_raw, NOx_tail, flow; the three
\* columns main adds (lines 153-155) are CO_efficiency, THC_efficiency and
\* NOx_efficiency.

None == [columns |-> <<>>, data |-> <<>>]

NewColumns ==
    <<"time", "Lambda", "catalyst_temp", "CO_raw", "CO_tail",
      "THC_raw", "THC_tail", "NOx_raw", "NOx_tail", "flow">>

ClippedColumns == {"CO_raw", "CO_tail", "THC_raw", "THC_tail", "NOx_raw", "NOx_tail"}

Pollutants == {"CO", "THC", "NOx"}
RawOf(p) == IF p = "CO" THEN "CO_raw" ELSE IF p = "THC" THEN "THC_raw" ELSE "NOx_raw"
TailOf(p) == IF p = "CO" THEN "CO_tail" ELSE IF p = "THC" THEN "THC_tail" ELSE "NOx_tail"
EffOf(p) ==
    IF p = "CO" THEN "CO_efficiency"
    ELSE IF p = "THC" THEN "THC_efficiency" ELSE "NOx_efficiency"

HasColumn(d, name) == \E j \in 1..Len(d.columns) : d.columns[j] = name

\* d[name]
Col(d, name) == d.data[CHOOSE j \in 1..Len(d.columns) : d.columns[j] = name]

\* len(d): the rows of its columns
NRows(d) == IF Len(d.data) = 0 THEN 0 ELSE Len(d.data[1])

\* d[name] = column, for a new label
WithColumn(d, name, column) ==
    [columns |-> Append(d.columns, name), data |-> Append(d.data, column)]

----------------------------------------------------------------------------
\* preprocess_data (app.py 106-123)

\* fillna(method='ffill'): an empty cell takes the last cell above that is not
ffill(col) ==
    LET f[i \in 0..Len(col)] ==
            IF i = 0 THEN NaN ELSE IF col[i] # NaN THEN col[i] ELSE f[i - 1]
    IN  [i \in 1..Len(col) |-> f[i]]

\* fillna(method='bfill'): an empty cell takes the first cell below that is not
bfill(col) ==
    LET n == Len(col)
        b[k \in 0..n] ==
            IF k = 0 THEN NaN
            ELSE IF col[n + 1 - k] # NaN THEN col[n + 1 - k] ELSE b[k - 1]
    IN  [i \in 1..n |-> b[n + 1 - i]]

\* fillna(0)
fill0(col) == [i \in 1..Len(col) |-> IF col[i] = NaN THEN 0 ELSE col[i]]

fillna_all(col) == fill0(bfill(ffill(col)))

\* Series.clip(lower=0) on a numeric column
clip_lower0(col) == [i \in 1..Len(col) |-> IF col[i] < 0 THEN 0 ELSE col[i]]

\* the exception preprocess_data raises, "" for none: the ten labels do not
\* fit the table (line 109), or clip compares a str cell with 0 (line 121)
preprocess_exception(d) ==
    IF Len(d.columns) # Len(NewColumns) THEN "ValueError"
    ELSE IF \E j \in 1..Len(NewColumns) :
               /\ NewColumns[j] \in ClippedColumns
               /\ \E i \in 1..Len(d.data[j]) : fillna_all(d.data[j])[i] = Text
         THEN "TypeError"
    ELSE ""

preprocess_data(d) ==
    [columns |-> NewColumns,
     data |-> [j \in 1..Len(NewColumns) |->
                 IF NewColumns[j] \in ClippedColumns
                 THEN clip_lower0(fillna_all(d.data[j]))
                 ELSE fillna_all(d.data[j])]]

----------------------------------------------------------------------------
\* main (app.py 126-227), one step at a time

\* the stride of df.iloc[::10, :]
Stride == 10

\* a plausible slip: every sample kept, iloc[::1]
decimate_none(d) == d

\* df.iloc[::10, :].reset_index(drop=True)
decimate(d) ==
    [columns |-> d.columns,
     data |-> [j \in 1..Len(d.data) |-> iloc_step(d.data[j], Stride)]]

RECURSIVE RatSum(_, _)
RatSum(col, n) == IF n = 0 THEN RatOfInt(0) ELSE RatAdd(RatSum(col, n - 1), col[n])

\* Series.mean / max / min of an efficiency column (non-empty)
mean(col) == RatDiv(RatSum(col, Len(col)), RatOfInt(Len(col)))
RatSeqMax(col) == CHOOSE m \in Range(col) : \A x \in Range(col) : RatLE(x, m)
RatSeqMin(col) == CHOOSE m \in Range(col) : \A x \in Range(col) : RatLE(m, x)

\* df.to_csv(index=False): one header row, then the rows in order
to_csv(d) ==
    [header |-> d.columns,
     rows |-> [i \in 1..NRows(d) |-> [j \in 1..Len(d.columns) |-> d.data[j][i]]]]

\* st.error and st.exception of the except block (lines 225-227)
Report(exception, where) ==
    /\ page' = page \o << <<"error", exception>>, <<"exception", where>> >>
    /\ pc' = "error"

\* st.file_uploader hands over a file (line 131)
Upload(file) ==
    /\ pc = "idle"
    /\ uploaded_file' = file
    /\ pc' = "uploaded"
    /\ UNCHANGED <<df, page, csv, call, ret>>

\* lines 140-143: pd.read_excel, then preprocess_data
Preprocess ==
    /\ pc = "uploaded"
    /\ uploaded_file # None
    /\ LET exception == preprocess_exception(uploaded_file)
       IN  IF exception # ""
           THEN /\ Report(exception, "preprocess_data")
                \* the labels were assigned in place before clip raised
                /\ df' = IF exception = "TypeError"
                         THEN [uploaded_file EXCEPT !.columns = NewColumns]
                         ELSE uploaded_file
           ELSE /\ df' = preprocess_data(uploaded_file)
                /\ pc' = "preprocessed"
                /\ page' = page
    /\ UNCHANGED <<uploaded_file, csv, call, ret>>

\* lines 146-150: the decimation and the preview of the first rows
Decimate ==
    /\ pc = "preprocessed"
    /\ df' = decimate(df)
    /\ page' = Append(page, <<"dataframe", "head">>)
    /\ pc' = "decimated"
    /\ UNCHANGED <<uploaded_file, csv, call, ret>>

\* lines 153-155: the three efficiency columns
Efficiency ==
    /\ pc = "decimated"
    /\ LET d1 == WithColumn(df, "CO_efficiency",
                     calculate_efficiency(Col(df, "CO_raw"), Col(df, "CO_tail")))
           d2 == WithColumn(d1, "THC_efficiency",
                     calculate_efficiency(Col(d1, "THC_raw"), Col(d1, "THC_tail")))
           d3 == WithColumn(d2, "NOx_efficiency",
                     calculate_efficiency(Col(d2, "NOx_raw"), Col(d2, "NOx_tail")))
       IN  df' = d3
    /\ pc' = "efficiency"
    /\ UNCHANGED <<uploaded_file, page, csv, call, ret>>

\* a plausible slip: a tab that swallows the exception of its surface and lets
\* the script go on
Tab_continue(pollutant, from, to) ==
    /\ pc = from
    /\ LET exception ==
               create_3d_surface_exception(Col(df, "flow"), Col(df, "catalyst_temp"))
           eff == Col(df, EffOf(pollutant))
       IN  IF exception # ""
           THEN page' = Append(page, <<"warning", pollutant>>)
           ELSE page' = page \o
                      << <<"plotly_chart", pollutant>>,
                         <<"metric", pollutant, "mean", mean(eff)>>,
                         <<"metric", pollutant, "max", RatSeqMax(eff)>>,
                         <<"metric", pollutant, "min", RatSeqMin(eff)>> >>
    /\ pc' = to
    /\ UNCHANGED <<uploaded_file, df, csv, call, ret>>

\* one "with tab:" block (lines 167-181, 183-197, 199-213): the surface of the
\* pollutant, its chart, and the mean, max and min of its efficiency column
Tab(pollutant, from, to) ==
    /\ pc = from
    /\ LET exception ==
               create_3d_surface_exception(Col(df, "flow"), Col(df, "catalyst_temp"))
           eff == Col(df, EffOf(pollutant))
       IN  IF exception # ""
           THEN Report(exception, pollutant)
           ELSE /\ page' = page \o
                      << <<"plotly_chart", pollutant>>,
                         <<"metric", pollutant, "mean", mean(eff)>>,
                         <<"metric", pollutant, "max", RatSeqMax(eff)>>,
                         <<"metric", pollutant, "min", RatSeqMin(eff)>> >>
                /\ pc' = to
    /\ UNCHANGED <<uploaded_file, df, csv, call, ret>>

\* lines 216-223: the CSV and its download button
Export ==
    /\ pc = "tab3"
    /\ csv' = to_csv(df)
    /\ page' = Append(page, <<"download_button", "csv">>)
    /\ pc' = "done"
    /\ UNCHANGED <<uploaded_file, df, call, ret>>

----------------------------------------------------------------------------
\* The uploaded tables.  A row is <<time, Lambda, catalyst temperature,
\* CO upstream, CO downstream, THC upstream, THC downstream, NOx upstream,
\* NOx downstream, flow>>; its time cell is its index unless stated.

\* the acquisition rate of the uploaded data, samples per second (line 128)
SampleRate == 10

\* rows placed at the multiples of the acquisition rate
KeptRows ==
    { <<0, 1, 200, 100, 20, 100, 0, 50, 50, 10>>,
      <<0, 1, 250, 100, 50, 100, 150, 20, 0, 20>>,
      <<0, 1, 300, 0, 10, 50, 20, 100, 100, 30>>,
      \* negative readings (sensor glitches)
      <<0, 1, 200, 100, -5, -3, 10, 0, -2, 30>>,
      \* an empty spreadsheet row
      <<0, NaN, NaN, NaN, NaN, NaN, NaN, NaN, NaN, NaN>>,
      \* a cell that is no number: in the time, the CO downstream, the flow column
      <<Text, 1, 250, 100, 20, 100, 0, 50, 50, 30>>,
      <<0, 1, 250, 100, Text, 100, 0, 50, 50, 30>>,
      <<0, 1, 250, 100, 20, 100, 0, 50, 50, Text>> }

\* rows placed everywhere else
FillerRows ==
    { <<0, 1, 220, 80, 40, 80, 40, 80, 40, 15>>,
      <<0, NaN, NaN, NaN, NaN, NaN, NaN, NaN, NaN, NaN>>,
      <<0, 1, 210, -1, -1, -1, -1, -1, -1, 12>> }

OldColumns == <<"c1", "c2", "c3", "c4", "c5", "c6", "c7", "c8", "c9", "c10", "c11">>

\* the table of the given rows, as read_excel returns it
TableOf(rows) ==
    [columns |-> SubSeq(OldColumns, 1, 10),
     data |-> [j \in 1..10 |-> [i \in 1..Len(rows) |->
                 IF j = 1 /\ rows[i][1] = 0 THEN i - 1 ELSE rows[i][j]]]]

MakeTable(n, kept, filler) ==
    TableOf([i \in 1..n |->
        IF (i - 1) % SampleRate = 0 THEN kept[((i - 1) \div SampleRate) + 1] ELSE filler])

WellFormedTables ==
    { MakeTable(n, kept, filler) :
        n \in 0..MaxRows,
        kept \in [1..((MaxRows + SampleRate - 1) \div SampleRate) -> KeptRows],
        filler \in FillerRows }

\* the end-to-end scenario: three consecutive samples
ScenarioTable ==
    TableOf(<< <<0, 1, 200, 100, 20, 100, 50, 100, 50, 10>>,
               <<0, 1, 250, 100, 50, 100, 50, 100, 50, 20>>,
               <<0, 1, 300, 0, 10, 100, 50, 100, 50, 30>> >>)

\* the same tables with the last column missing, or with one column more
DropColumn(t) ==
    [columns |-> SubSeq(t.columns, 1, 9), data |-> SubSeq(t.data, 1, 9)]
AddColumn(t) ==
    [columns |-> Append(t.columns, "c11"),
     data |-> Append(t.data, [i \in 1..NRows(t) |-> 0])]

SmallTables ==
    { MakeTable(n, [k \in 1..3 |-> kept], filler) :
        n \in {0, 1, 2 * SampleRate + 1}, kept \in KeptRows, filler \in FillerRows }

Files ==
    WellFormedTables \cup {ScenarioTable}
        \cup {DropColumn(t) : t \in SmallTables} \cup {AddColumn(t) : t \in SmallTables}

----------------------------------------------------------------------------
\* Direct calls of the module's functions.

NoCall == [fn |-> "", a |-> <<>>, b |-> <<>>, c |-> <<>>, k |-> 0]
Pending == [status |-> "pending", value |-> <<>>]

\* readings handed to calculate_efficiency
EffValues == {-1, 0, 20, 50, 100, 150}

\* (flow, temperature) points of a scatter cloud
CloudPoints == { <<10, 200>>, <<20, 250>>, <<30, 300>>, <<30, 200>> }

SeqsUpTo(S, n) == UNION { [1..m -> S] : m \in 0..n }

EfficiencyCalls ==
    { [fn |-> "calculate_efficiency", a |-> up, b |-> down, c |-> <<>>, k |-> 0] :
        up \in SeqsUpTo(EffValues, MaxLen), down \in SeqsUpTo(EffValues, MaxLen) }

DecimationCalls ==
    { [fn |-> "iloc_step", a |-> [i \in 1..n |-> t0 + i - 1], b |-> <<>>, c |-> <<>>,
       k |-> stride] :
        n \in 0..MaxSeriesLen, t0 \in {0, 100}, stride \in (1..MaxStride) \cup {Stride} }

SurfaceCalls ==
    { [fn |-> "create_3d_surface",
       a |-> [i \in 1..Len(pts) |-> pts[i][1]],
       b |-> [i \in 1..Len(pts) |-> pts[i][2]],
       c |-> [i \in 1..Len(pts) |-> RatOfInt(e)], k |-> 0] :
        pts \in SeqsUpTo(CloudPoints, MaxPoints), e \in {0, 100} }

Calls ==
    {c \in EfficiencyCalls : Len(c.a) = Len(c.b)} \cup DecimationCalls \cup SurfaceCalls

Call_calculate_efficiency ==
    /\ call.fn = "calculate_efficiency"
    /\ ret = Pending
    /\ ret' = [status |-> "returned", value |-> calculate_efficiency(call.a, call.b)]
    /\ UNCHANGED <<uploaded_file, df, page, csv, pc, call>>

Call_iloc_step ==
    /\ call.fn = "iloc_step"
    /\ ret = Pending
    /\ ret' = [status |-> "returned", value |-> iloc_step(call.a, call.k)]
    /\ UNCHANGED <<uploaded_file, df, page, csv, pc, call>>

\* on an exception the value holds the frame as the exception left it: the
\* coordinate arrays of lines 52-54 when they were built, and no figure
Call_create_3d_surface ==
    /\ call.fn = "create_3d_surface"
    /\ ret = Pending
    /\ LET exception == create_3d_surface_exception(call.a, call.b)
       IN  ret' =
             IF exception = ""
             THEN [status |-> "returned",
                   value |-> create_3d_surface(call.a, call.b, call.c, "CO")]
             ELSE IF exception = "QhullError"
             THEN [status |-> "raised",
                   value |-> [exception |-> exception,
                              x |-> surface_xi(call.a, call.b),
                              y |-> surface_yi(call.a, call.b)]]
             ELSE [status |-> "raised",
                   value |-> [exception |-> exception, x |-> <<>>, y |-> <<>>]]
    /\ UNCHANGED <<uploaded_file, df, page, csv, pc, call>>

----------------------------------------------------------------------------
\* Specifications.

Idle ==
    /\ uploaded_file = None
    /\ df = None
    /\ page = <<>>
    /\ csv = [header |-> <<>>, rows |-> <<>>]
    /\ pc = "idle"

\* the page before an upload
Init ==
    /\ Idle
    /\ call = NoCall
    /\ ret = Pending

Next ==
    \/ (pc = "idle" /\ \E file \in Files : Upload(file))
    \/ Preprocess
    \/ Decimate
    \/ Efficiency
    \/ Tab("CO", "efficiency", "tab1")
    \/ Tab("THC", "tab1", "tab2")
    \/ Tab("NOx", "tab2", "tab3")
    \/ Export

Spec == Init /\ [][Next]_vars

\* one direct call of one function, on inputs drawn from the bounded sets
FnInit ==
    /\ Idle
    /\ call \in Calls
    /\ ret = Pending

FnNext ==
    \/ Call_calculate_efficiency
    \/ Call_iloc_step
    \/ Call_create_3d_surface

FnSpec == FnInit /\ [][FnNext]_vars

----------------------------------------------------------------------------
\* Properties of the functions, checked under FnSpec.

Returned(fn) == call.fn = fn /\ ret.status = "returned"

\* e = clamp((1 - d/u) * 100, 0, 100) for u > 0, stated without a division
IsClampedRaw(u, d, e) ==
    LET raw_n == 100 * (u - d)      \* raw = raw_n / u
    IN  \/ raw_n < 0 /\ e = <<0, 1>>
        \/ raw_n > 100 * u /\ e = <<100, 1>>
        \/ /\ 0 <= raw_n /\ raw_n <= 100 * u
           /\ e[2] > 0 /\ e[1] * u = raw_n * e[2]

\* C1: calculate_efficiency returns a sequence of the length of its inputs
\* whose value at every index i is clamp((1 - downstream[i]/upstream[i]) * 100,
\* 0, 100) when upstream[i] > 0 and downstream[i] >= 0, and 0 otherwise;
\* (100, 0) gives 100, (100, 100) gives 0, (100, 150) gives 0.
C1_EfficiencyPointwise ==
    Returned("calculate_efficiency") =>
        /\ Len(ret.value) = Len(call.a)
        /\ \A i \in 1..Len(call.a) :
              LET u == call.a[i]
                  d == call.b[i]
                  e == ret.value[i]
              IN  /\ IF u > 0 /\ d >= 0 THEN IsClampedRaw(u, d, e) ELSE e = <<0, 1>>
                  /\ (u = 0) => e = <<0, 1>>
                  /\ (d < 0) => e = <<0, 1>>
                  /\ (u = 100 /\ d = 0) => e = <<100, 1>>
                  /\ (u = 100 /\ d = 100) => e = <<0, 1>>
                  /\ (u = 100 /\ d = 150) => e = <<0, 1>>

C1_Witness ==
    /\ Returned("calculate_efficiency")
    /\ call.a = <<100, 100>>
    /\ call.b = <<20, -1>>
    /\ ret.value = << <<80, 1>>, <<0, 1>> >>

\* C6: decimation with stride k of a series of length n >= 0 gives a series of
\* length ceil(n/k) whose i-th element is the original element at index i*k;
\* n = 0 gives the empty series, 0 < n <= k exactly the first sample.
C6_Decimation ==
    Returned("iloc_step") =>
        LET n == Len(call.a)
            k == call.k
        IN  /\ Len(ret.value) = (n + k - 1) \div k
            /\ \A i \in 0..(Len(ret.value) - 1) : ret.value[i + 1] = call.a[i * k + 1]
            /\ (n = 0) => ret.value = <<>>
            /\ (0 < n /\ n <= k) => ret.value = <<call.a[1]>>

C6_Witness ==
    /\ Returned("iloc_step")
    /\ call.k = Stride
    /\ Len(call.a) = 2 * Stride + 1
    /\ ret.value = <<call.a[1], call.a[Stride + 1], call.a[2 * Stride + 1]>>

\* the shape of a two-dimensional array is (rows, cols)
HasShape(m, rows, cols) ==
    /\ Len(m) = rows
    /\ \A r \in 1..Len(m) : Len(m[r]) = cols

Entries(m) == {m[r][c] : r \in 1..Len(m), c \in 1..gridSize}

\* the smallest entry of m is lo and the largest is hi
SpansExactly(m, lo, hi) ==
    /\ \A v \in Entries(m) : RatLE(<<lo, 1>>, v) /\ RatLE(v, <<hi, 1>>)
    /\ <<lo, 1>> \in Entries(m)
    /\ <<hi, 1>> \in Entries(m)

Least(s) == CHOOSE m \in Range(s) : \A v \in Range(s) : ~(v < m)
Greatest(s) == CHOOSE m \in Range(s) : \A v \in Range(s) : ~(m < v)

\* the coordinate arrays x, y are those of the cloud (flow, temp)
CoordinatesFit(x, y, flow, temp) ==
    /\ HasShape(x, gridSize, gridSize)
    /\ HasShape(y, gridSize, gridSize)
    /\ SpansExactly(x, Least(flow), Greatest(flow))
    /\ SpansExactly(y, Least(temp), Greatest(temp))
    /\ (Least(flow) = Greatest(flow)) => Entries(x) = {<<Least(flow), 1>>}
    /\ (Least(temp) = Greatest(temp)) => Entries(y) = {<<Least(temp), 1>>}

\* C9 as stated: for every non-empty scatter cloud create_3d_surface builds a
\* grid whose X, Y and Z have the shape (gridSize, gridSize), gridSize = 50,
\* whose X and Y bounds are exactly min/max of flow and of temperature, and
\* whose coordinates on an axis with min = max all equal that value.
C9_Original ==
    (call.fn = "create_3d_surface" /\ Len(call.a) > 0 /\ ret.status # "pending") =>
        /\ ret.status = "returned"
        /\ CoordinatesFit(ret.value.x, ret.value.y, call.a, call.b)
        /\ HasShape(ret.value.z, gridSize, gridSize)

\* C9 (amended): for every scatter cloud of at least three points not on one
\* line the grid create_3d_surface builds has X, Y and Z of the shape (50, 50)
\* with X and Y bounds exactly min/max of flow and of temperature; for every
\* other non-empty cloud, so whenever min = max on an axis, it raises without
\* a Z, the coordinate arrays it built before (lines 52-54) having that shape,
\* those bounds, and on an axis with min = max that single value everywhere.
C9_GridShape ==
    (call.fn = "create_3d_surface" /\ Len(call.a) > 0 /\ ret.status # "pending") =>
        /\ CoordinatesFit(ret.value.x, ret.value.y, call.a, call.b)
        /\ IF \E i, j, k \in 1..Len(call.a) :
                 call.a[i] * (call.b[j] - call.b[k]) + call.a[j] * (call.b[k] - call.b[i])
                     + call.a[k] * (call.b[i] - call.b[j]) # 0
           THEN /\ ret.status = "returned"
                /\ HasShape(ret.value.z, gridSize, gridSize)
           ELSE /\ ret.status = "raised"
                /\ ret.value.exception = "QhullError"
        /\ (Least(call.a) = Greatest(call.a) \/ Least(call.b) = Greatest(call.b)) =>
              ret.status = "raised"

C9_Witness ==
    /\ Returned("create_3d_surface")
    /\ call.a = <<10, 20, 30>>
    /\ call.b = <<200, 250, 200>>
    /\ HasShape(ret.value.z, gridSize, gridSize)
    /\ ret.value.x[1][1] = <<10, 1>> /\ ret.value.x[1][gridSize] = <<30, 1>>
    /\ ret.value.y[1][1] = <<200, 1>> /\ ret.value.y[gridSize][1] = <<250, 1>>
    /\ ret.value.z[1][1] = "interpolated"
    /\ ret.value.z[gridSize][1] = "fill_value"

----------------------------------------------------------------------------
\* Properties of the pipeline of main, checked under Spec.

Shown(element) == \E i \in 1..Len(page) : page[i] = element
ErrorReported == \E i \in 1..Len(page) : page[i][1] = "error"
ChartShown(p) == Shown(<<"plotly_chart", p>>)
StatsShown(p) == \E i \in 1..Len(page) : page[i][1] = "metric" /\ page[i][2] = p
ExportOffered == Shown(<<"download_button", "csv">>)
EfficiencyComputed == \E p \in Pollutants : HasColumn(df, EffOf(p))
Finished == pc \in {"done", "error"}

\* the row of the uploaded table that row i (from 1) of the decimated df holds
SourceRow(i) == (i - 1) * Stride + 1

\* the cell of the uploaded table under the label preprocess_data gives its column
RawCell(name, row) ==
    uploaded_file.data[CHOOSE j \in 1..Len(NewColumns) : NewColumns[j] = name][row]

\* C2 as stated: a sample whose ratio would be undefined (upstream zero or
\* negative, or downstream negative) never causes an error and always ends
\* with efficiency 0 for that pollutant; a negative downstream reading
\* disqualifies the sample rather than being clamped to a valid value.
C2_AnomalyIsZero ==
    (Len(uploaded_file.columns) = Len(NewColumns) /\ EfficiencyComputed) =>
        \A p \in Pollutants : \A i \in 1..NRows(df) :
            LET u == RawCell(RawOf(p), SourceRow(i))
                d == RawCell(TailOf(p), SourceRow(i))
            IN  (IsNum(u) /\ IsNum(d) /\ (u <= 0 \/ d < 0)) =>
                    Col(df, EffOf(p))[i] = <<0, 1>>

\* C3 as stated: the table of the three samples (10, 200, 100, 20),
\* (20, 250, 100, 50), (30, 300, 0, 10) yields the CO efficiency column
\* [80, 50, 0], one value per input sample.
C3_Original ==
    (uploaded_file = ScenarioTable /\ HasColumn(df, "CO_efficiency")) =>
        Col(df, "CO_efficiency") = << <<80, 1>>, <<50, 1>>, <<0, 1>> >>

\* C3 (amended): that table yields the CO efficiency column [80], one value
\* per decimated sample: of its three samples the stride of 10 keeps the first.
C3_ScenarioDecimated ==
    (uploaded_file = ScenarioTable /\ pc \notin {"idle", "uploaded"}) =>
        /\ pc # "preprocessed" => NRows(df) = 1
        /\ pc \notin {"preprocessed", "decimated"} =>
              /\ HasColumn(df, "CO_efficiency")
              /\ Col(df, "CO_efficiency") = << <<80, 1>> >>

C3_Witness ==
    /\ uploaded_file = ScenarioTable
    /\ HasColumn(df, "CO_efficiency")
    /\ Col(df, "CO_efficiency") = << <<80, 1>> >>
    /\ Col(df, "flow") = <<10>>

\* C4 as stated: when interpolation cannot proceed for CO (griddata raises
\* inside create_3d_surface) the other pollutants are not aborted: THC and NOx
\* still get their statistics and their surface (or their own "no surface
\* available" outcome), only the failing pollutant goes without.
C4_OthersStillProcessed ==
    (Finished /\ Shown(<<"error", "QhullError">>) /\ Shown(<<"exception", "CO">>)) =>
        \A p \in {"THC", "NOx"} :
            StatsShown(p) /\ (ChartShown(p) \/ Shown(<<"exception", p>>))

\* C5: in every state of the pipeline every value of each of the three
\* efficiency columns lies in [0, 100], and each efficiency column is as long
\* as the decimated series it is attached to; all three exist from the
\* efficiency step on unless preprocessing failed.
C5_EfficiencyBounded ==
    /\ \A p \in Pollutants :
          HasColumn(df, EffOf(p)) =>
              /\ Len(Col(df, EffOf(p))) = Len(Col(df, "flow"))
              /\ Len(Col(df, EffOf(p))) = Len(Col(df, RawOf(p)))
              /\ Len(Col(df, EffOf(p))) = (NRows(uploaded_file) + Stride - 1) \div Stride
              /\ \A i \in 1..Len(Col(df, EffOf(p))) :
                    LET e == Col(df, EffOf(p))[i]
                    IN  e[2] > 0 /\ 0 <= e[1] /\ e[1] <= 100 * e[2]
    /\ pc \in {"efficiency", "tab1", "tab2", "tab3", "done"} =>
          \A p \in Pollutants : HasColumn(df, EffOf(p))

C5_Witness ==
    /\ pc = "done"
    /\ NRows(df) = 3
    /\ \E i \in 1..3 : RawCell("THC_raw", SourceRow(i)) < 0 /\ IsNum(RawCell("THC_raw", SourceRow(i)))
    /\ \E i \in 1..3 : RawCell("THC_tail", SourceRow(i)) = NaN
    /\ \E i \in 1..3 : RawCell("THC_tail", SourceRow(i)) > RawCell("THC_raw", SourceRow(i))
                        /\ RawCell("THC_raw", SourceRow(i)) > 0
    /\ \E i \in 1..3 : Col(df, "THC_efficiency")[i] = <<0, 1>>
    /\ \E i \in 1..3 : Col(df, "CO_efficiency")[i] = <<100, 1>>

\* three points of the cloud span a triangle (shoelace formula)
SpansTriangle(flow, temp) ==
    \E i, j, k \in 1..Len(flow) :
        flow[i] * (temp[j] - temp[k]) + flow[j] * (temp[k] - temp[i])
            + flow[k] * (temp[i] - temp[j]) # 0

AllNumbers(col) == \A i \in 1..Len(col) : IsNum(col[i])

\* the run reached the first surface with a numeric cloud without a triangle
DegenerateCloudTried ==
    /\ EfficiencyComputed
    /\ pc # "efficiency"
    /\ AllNumbers(Col(df, "flow")) /\ AllNumbers(Col(df, "catalyst_temp"))
    /\ ~SpansTriangle(Col(df, "flow"), Col(df, "catalyst_temp"))

\* C7: create_3d_surface, called on a cloud with fewer than 3 non-collinear
\* points (0, 1 or 2 points, or all points on one line), raises to its caller
\* instead of producing a grid, and main reports the condition as an error:
\* the run ends in the except block, with no chart rendered.
C7_DegenerateReported ==
    DegenerateCloudTried =>
        /\ pc = "error"
        /\ Shown(<<"exception", "CO">>)
        /\ Shown(<<"error", IF NRows(df) = 0 THEN "ValueError" ELSE "QhullError">>)
        /\ \A p \in Pollutants : ~ChartShown(p)

C7_Witness ==
    /\ DegenerateCloudTried
    /\ Col(df, "flow") = <<10, 20, 30>>
    /\ Col(df, "catalyst_temp") = <<200, 250, 300>>
    /\ Shown(<<"error", "QhullError">>)
    /\ pc = "error"

\* the uploaded table has not exactly 10 columns, or holds a cell that is no number
Malformed(file) ==
    \/ Len(file.columns) # 10
    \/ \E j \in 1..Len(file.data) : \E i \in 1..Len(file.data[j]) : file.data[j][i] = Text

\* C8 as stated: when the uploaded table has not exactly 10 columns, or a cell
\* cannot be parsed, main reports the error and processing of the file aborts:
\* no efficiency column, no surface, no CSV export.
C8_MalformedAborts ==
    (Finished /\ Malformed(uploaded_file)) =>
        /\ pc = "error"
        /\ ErrorReported
        /\ ~EfficiencyComputed
        /\ \A p \in Pollutants : ~ChartShown(p)
        /\ ~ExportOffered

\* (C10) the elements of a run without a failure, in the order main renders them
TabElements(p) ==
    << <<"plotly_chart", p>>, <<"metric", p>>, <<"metric", p>>, <<"metric", p>> >>
PageOrder ==
    << <<"dataframe", "head">> >> \o TabElements("CO") \o TabElements("THC")
        \o TabElements("NOx") \o << <<"download_button", "csv">> >>

\* how many of them are on the page when the script is at a position
Progress(position) ==
    CASE position \in {"idle", "uploaded", "preprocessed"} -> 0
      [] position \in {"decimated", "efficiency"} -> 1
      [] position = "tab1" -> 5
      [] position = "tab2" -> 9
      [] position = "tab3" -> 13
      [] position = "done" -> 14

IsOutput(element) == element[1] \notin {"error", "exception"}

EfficiencyColumns == <<"CO_efficiency", "THC_efficiency", "NOx_efficiency">>

\* (C10) what the page, df and csv hold at each position of the script
C10_Positions ==
    LET outputs == SelectSeq(page, IsOutput)
    IN  /\ Len(outputs) <= Len(PageOrder)
        /\ \A i \in 1..Len(outputs) : <<outputs[i][1], outputs[i][2]>> = PageOrder[i]
        /\ pc # "error" => (page = outputs /\ Len(outputs) = Progress(pc))
        /\ pc = "error" =>
              /\ Len(page) = Len(outputs) + 2
              /\ SubSeq(page, 1, Len(outputs)) = outputs
              /\ page[Len(page) - 1][1] = "error"
              /\ page[Len(page)][1] = "exception"
              /\ Len(outputs) \in {Progress("preprocessed"), Progress("efficiency"),
                                   Progress("tab1"), Progress("tab2")}
        /\ pc \in {"idle", "uploaded"} => df = None
        /\ pc = "preprocessed" =>
              df.columns = NewColumns /\ NRows(df) = NRows(uploaded_file)
        /\ pc = "decimated" =>
              /\ df.columns = NewColumns
              /\ NRows(df) = (NRows(uploaded_file) + Stride - 1) \div Stride
        /\ pc \in {"efficiency", "tab1", "tab2", "tab3", "done"} =>
              df.columns = NewColumns \o EfficiencyColumns
        /\ ExportOffered <=> pc = "done"
        /\ ErrorReported <=> pc = "error"
        /\ pc # "done" => csv = [header |-> <<>>, rows |-> <<>>]
        /\ pc = "done" =>
              /\ \A p \in Pollutants : ChartShown(p) /\ StatsShown(p)
              /\ csv.header = NewColumns \o EfficiencyColumns
              /\ Len(csv.rows) = NRows(df)
              /\ \A i \in 1..Len(csv.rows) :
                    /\ Len(csv.rows[i]) = 13
                    /\ \A j \in 1..13 : csv.rows[i][j] = df.data[j][i]
                    /\ csv.rows[i][1] = RawCell("time", SourceRow(i))

\* (C10) the positions of a run without a failure, in order
Positions ==
    <<"idle", "uploaded", "preprocessed", "decimated", "efficiency",
      "tab1", "tab2", "tab3", "done">>

\* (C10) no step starts from a finished run; a step moves the script to the next
\* position or, from a position whose code can raise, to the except block
C10_Step ==
    /\ ~Finished
    /\ \/ pc' = "error" /\ pc \in {"uploaded", "efficiency", "tab1", "tab2"}
       \/ \E i \in 1..(Len(Positions) - 1) : pc = Positions[i] /\ pc' = Positions[i + 1]

\* C10: every run of main follows the order preprocess, decimate, the three
\* efficiency columns, CO, THC and NOx surface with statistics, CSV export,
\* and ends in exactly one of two outcomes: the export is offered, only after
\* all three efficiency columns and all three surfaces, the exported table
\* holding the 10 original columns plus the three efficiency columns with
\* the rows in decimated sample order; or an error is reported and every
\* later step, the export included, is skipped.
C10_FixedOrder == []C10_Positions /\ [][C10_Step]_vars

C10_Witness ==
    /\ pc = "done"
    /\ ExportOffered
    /\ Len(csv.rows) = 3
    /\ csv.rows[3][1] = 2 * Stride
    /\ Len(page) = Len(PageOrder)

====
